---- MODULE Spec2Model ----
(***************************************************************************)
(* Model of internal/util/importutilv2/json/row_parser.go: the JSON row    *)
(* parser of the bulk-import path.  NewRowParser builds the schema index,  *)
(* Parse decodes one untyped record into a Row keyed by field ID,          *)
(* parseEntity coerces one value to its field's declared type and          *)
(* arrayToFieldData coerces the elements of an array field.                *)
(***************************************************************************)
EXTENDS Integers, Sequences, FiniteSets, TLC

(***************************************************************************)
(* Bounds of the model.                                                    *)
(***************************************************************************)
\* Most key/value pairs in one input record handed to Parse.
MaxKeys == 3
\* Longest list handed to parseEntity as a vector or array value.
MaxLen == 3

(***************************************************************************)
(* Untyped input values, as encoding/json hands them over with UseNumber:  *)
(* bool, json.Number (the literal's text, unparsed), string,               *)
(* []interface{} and map[string]interface{}.                               *)
(***************************************************************************)
Bool(b) == [t |-> "bool", b |-> b]
Str(s) == [t |-> "string", s |-> s]
List(l) == [t |-> "list", l |-> l]
Map(m) == [t |-> "map", m |-> m]
\* A json.Number is text: sign, integer digits, fraction digits (<<>> when
\* the literal has no '.'), exponent (<<>> when it has no 'e').
Lit(neg, int, frac, exp) == [neg |-> neg, int |-> int, frac |-> frac, exp |-> exp]
Num(lit) == [t |-> "num", lit |-> lit]
IntLit(neg, int) == Lit(neg, int, <<>>, <<>>)

\* %T of a value, as the wrap*Error messages print it.
GoType(v) ==
    CASE v.t = "bool" -> "bool"
      [] v.t = "num" -> "json.Number"
      [] v.t = "string" -> "string"
      [] v.t = "list" -> "[]interface {}"
      [] v.t = "map" -> "map[string]interface {}"

(***************************************************************************)
(* Machine integers.  A natural number is a little-endian sequence of      *)
(* 16-bit limbs without high zero limbs; a w-bit machine word is w/16      *)
(* limbs (one limb below 2^8 for w = 8) in two's complement.               *)
(***************************************************************************)
LimbBase == 2^16

RECURSIVE MulAdd(_, _, _)
\* n*m + c for a natural n, a small factor m and a carry c < LimbBase.
MulAdd(n, m, c) ==
    IF n = <<>> THEN (IF c = 0 THEN <<>> ELSE <<c>>)
    ELSE LET t == n[1] * m + c
         IN  <<t % LimbBase>> \o MulAdd(Tail(n), m, t \div LimbBase)

RECURSIVE DigitsValue(_)
\* The natural number a string of decimal digits denotes.
DigitsValue(ds) ==
    IF ds = <<>> THEN <<>>
    ELSE MulAdd(DigitsValue(SubSeq(ds, 1, Len(ds) - 1)), 10, ds[Len(ds)])

RECURSIVE NatCmp(_, _)
\* -1, 0 or 1 as a < b, a = b or a > b.
NatCmp(a, b) ==
    IF Len(a) # Len(b) THEN (IF Len(a) < Len(b) THEN -1 ELSE 1)
    ELSE IF a = <<>> THEN 0
    ELSE IF a[Len(a)] # b[Len(b)] THEN (IF a[Len(a)] < b[Len(b)] THEN -1 ELSE 1)
    ELSE NatCmp(SubSeq(a, 1, Len(a) - 1), SubSeq(b, 1, Len(b) - 1))

\* 2^k as a natural.
Pow2(k) == [i \in 1..(k \div 16 + 1) |-> IF i = k \div 16 + 1 THEN 2^(k % 16) ELSE 0]

RECURSIVE Normalize(_)
\* Drops high zero limbs.
Normalize(x) ==
    IF x = <<>> THEN <<>>
    ELSE IF x[Len(x)] = 0 THEN Normalize(SubSeq(x, 1, Len(x) - 1))
    ELSE x

\* A natural below 2^64 as the four limbs of a uint64.
ToUint64(n) == [i \in 1..4 |-> IF i <= Len(n) THEN n[i] ELSE 0]

RECURSIVE Inc(_)
\* x + 1 modulo the width of x.
Inc(x) ==
    IF x = <<>> THEN <<>>
    ELSE IF x[1] = LimbBase - 1 THEN <<0>> \o Inc(Tail(x))
    ELSE <<x[1] + 1>> \o Tail(x)

\* -x in two's complement at the width of x (whole limbs).
Negate(x) == Inc([i \in DOMAIN x |-> LimbBase - 1 - x[i]])

(***************************************************************************)
(* Results and errors.  An error keeps its kind, the field name its text   *)
(* names (NoField when the text names none), the %T it prints and the      *)
(* dimension it prints.                                                    *)
(***************************************************************************)
NoField == ""
Err(kind, field, got, n) == [kind |-> kind, field |-> field, got |-> got, n |-> n]
Ok(v) == [ok |-> TRUE, val |-> v]
Fail(e) == [ok |-> FALSE, err |-> e]

(***************************************************************************)
(* strconv, on the literals the JSON grammar allows (base 10, no prefix,   *)
(* no underscore), where base 0 selects base 10.                           *)
(***************************************************************************)
\* strconv.ParseUint(s, 0, bitSize): a sign, a '.' or an exponent is a
\* syntax error; a value of 2^bitSize or more is a range error.
ParseUint(lit, bitSize) ==
    IF lit.neg \/ lit.frac # <<>> \/ lit.exp # <<>>
    THEN Fail(Err("syntax", NoField, "strconv.ParseUint", 0))
    ELSE LET un == DigitsValue(lit.int)
         IN  IF NatCmp(un, Pow2(bitSize)) >= 0
             THEN Fail(Err("range", NoField, "strconv.ParseUint", 0))
             ELSE Ok(ToUint64(un))

\* strconv.ParseInt(s, 0, bitSize): picks off the sign, converts the rest
\* unsigned, checks it against the cutoff 1 << (bitSize-1), and returns the
\* int64 (negated when the sign was '-').
ParseInt(lit, bitSize) ==
    IF lit.frac # <<>> \/ lit.exp # <<>>
    THEN Fail(Err("syntax", NoField, "strconv.ParseInt", 0))
    ELSE LET un == DigitsValue(lit.int)
             cutoff == Pow2(bitSize - 1)
         IN  IF ~lit.neg /\ NatCmp(un, cutoff) >= 0
             THEN Fail(Err("range", NoField, "strconv.ParseInt", 0))
             ELSE IF lit.neg /\ NatCmp(un, cutoff) > 0
             THEN Fail(Err("range", NoField, "strconv.ParseInt", 0))
             ELSE Ok(IF lit.neg THEN Negate(ToUint64(un)) ELSE ToUint64(un))

\* Decimal order of magnitude of a literal: digits before the point plus
\* the exponent (0 for the literal 0).
Magnitude(lit) ==
    IF DigitsValue(lit.int) = <<>> THEN 0
    ELSE Len(lit.int) + (IF lit.exp = <<>> THEN 0 ELSE lit.exp[1])

\* strconv.ParseFloat(s, bitSize): every literal of the JSON grammar is
\* well formed; a value beyond the largest finite float32 (about 3.4e38) or
\* float64 (about 1.8e308) is a range error.  The literals of the model stay
\* clear of the decade that holds the largest finite value.
ParseFloat(lit, bitSize) ==
    IF Magnitude(lit) > (IF bitSize = 32 THEN 39 ELSE 309)
    THEN Fail(Err("range", NoField, "strconv.ParseFloat", 0))
    ELSE Ok([bits |-> bitSize, nearest |-> lit])

\* The conversions int8(num), int16(num), int32(num) of an int64 and
\* byte(num) of a uint64 keep the low bits.
int8(num) == <<num[1] % 2^8>>
int16(num) == <<num[1]>>
int32(num) == <<num[1], num[2]>>
byte(num) == num[1] % 2^8

(***************************************************************************)
(* encoding/json.                                                          *)
(***************************************************************************)
\* Every key a record of the model can hold, in the byte order json.Marshal
\* sorts map keys by.
AllKeysSorted == <<"$meta", "flag", "id", "vec", "x", "y">>

\* The texts among the model's strings that json.Unmarshal accepts.
ValidJSONTexts == {"{}", "{\"x\": 8}"}

RECURSIVE SortKeys(_, _)
\* The keys of a map in sorted order: the elements of AllKeysSorted from
\* position i on that are keys of the map.
SortKeys(keys, i) ==
    IF i > Len(AllKeysSorted) THEN <<>>
    ELSE (IF AllKeysSorted[i] \in keys THEN <<AllKeysSorted[i]>> ELSE <<>>)
         \o SortKeys(keys, i + 1)

RECURSIVE Marshal(_)
\* json.Marshal: the JSON text of a value, kept as its syntax tree; an
\* object's members are written in sorted key order, a json.Number as its
\* own text.
Marshal(v) ==
    CASE v.t = "bool" -> [j |-> "bool", b |-> v.b]
      [] v.t = "num" -> [j |-> "number", lit |-> v.lit]
      [] v.t = "string" -> [j |-> "string", s |-> v.s]
      [] v.t = "list" -> [j |-> "array", items |-> [i \in DOMAIN v.l |-> Marshal(v.l[i])]]
      [] v.t = "map" ->
           LET keys == SortKeys(DOMAIN v.m, 1)
           IN  [j |-> "object",
                members |-> [i \in DOMAIN keys |->
                                [key |-> keys[i], value |-> Marshal(v.m[keys[i]])]]]

(***************************************************************************)
(* Schema and schema index.                                                *)
(***************************************************************************)
\* A schemapb.FieldSchema, with the dimension of its "dim" type parameter.
Field(id, name, dataType, elementType, isPrimaryKey, autoID, isDynamic, dim) ==
    [FieldID |-> id, Name |-> name, DataType |-> dataType, ElementType |-> elementType,
     IsPrimaryKey |-> isPrimaryKey, AutoID |-> autoID, IsDynamic |-> isDynamic, Dim |-> dim]

VectorTypes == {"BinaryVector", "FloatVector", "Float16Vector"}

\* A nil *schemapb.FieldSchema.
NilField == Field(0, "", "None", "None", FALSE, FALSE, FALSE, 0)

\* The field of the least index in hits, NilField when there is none.
FirstField(fields, hits) ==
    IF hits = {} THEN NilField
    ELSE fields[CHOOSE i \in hits : \A j \in hits : i <= j]

\* typeutil.GetVectorFieldSchema: the schema's vector field.
GetVectorFieldSchema(schema) ==
    FirstField(schema.Fields,
               {i \in DOMAIN schema.Fields : schema.Fields[i].DataType \in VectorTypes})

\* typeutil.GetPrimaryFieldSchema: the schema's primary key field.
GetPrimaryFieldSchema(schema) ==
    FirstField(schema.Fields, {i \in DOMAIN schema.Fields : schema.Fields[i].IsPrimaryKey})

\* typeutil.GetDynamicField: the schema's dynamic field, nil when it has none.
GetDynamicField(schema) ==
    FirstField(schema.Fields, {i \in DOMAIN schema.Fields : schema.Fields[i].IsDynamic})

\* lo.KeyBy and lo.SliceToMap: of the fields with one key, at the indices
\* hits, the last one stays in the map.
LastField(fields, hits) == fields[CHOOSE i \in hits : \A j \in hits : i >= j]

\* NewRowParser: the schema index, or an error for a schema without a vector
\* field, without a dimension or without a primary key.
NewRowParser(schema) ==
    LET fields == schema.Fields
        ids == {fields[i].FieldID : i \in DOMAIN fields}
        names == {fields[i].Name : i \in DOMAIN fields}
        id2Field == [id \in ids |->
                        LastField(fields, {i \in DOMAIN fields : fields[i].FieldID = id})]
        vecField == GetVectorFieldSchema(schema)
        pkField == GetPrimaryFieldSchema(schema)
        all == [n \in names |->
                   LastField(fields, {i \in DOMAIN fields : fields[i].Name = n}).FieldID]
        dynamicField == GetDynamicField(schema)
        dropped == (IF pkField.AutoID THEN {pkField.Name} ELSE {})
                   \cup (IF dynamicField # NilField THEN {dynamicField.Name} ELSE {})
        name2FieldID == [n \in names \ dropped |-> all[n]]
    IN  IF vecField = NilField \/ vecField.Dim <= 0 \/ pkField = NilField
        THEN Fail(Err("schema", NoField, "", 0))
        ELSE Ok([dim |-> vecField.Dim,
                 id2Field |-> id2Field,
                 name2FieldID |-> name2FieldID,
                 pkField |-> pkField,
                 dynamicField |-> dynamicField])

(***************************************************************************)
(* Error wrappers.                                                         *)
(***************************************************************************)
\* wrapTypeError: names the field and its declared type, prints %T of v.
wrapTypeError(r, v, fieldID) ==
    Err("type", r.id2Field[fieldID].Name, GoType(v), 0)

\* wrapDimError: names the field, prints the expected and the actual dim.
wrapDimError(r, actualDim, fieldID) ==
    Err("dim", r.id2Field[fieldID].Name, "", actualDim)

\* wrapArrayValueTypeError: prints the element type and %T of v; no field.
wrapArrayValueTypeError(r, v, eleType) ==
    Err("arrayType", NoField, GoType(v), 0)

(***************************************************************************)
(* arrayToFieldData.                                                       *)
(***************************************************************************)
\* One pass of an element loop of arrayToFieldData: the type assertion on
\* arr[i], then the strconv call of the element type's case.  A failed
\* assertion reports the whole array.
arrayElement(r, arr, i, eleType) ==
    LET e == arr[i]
    IN  CASE eleType = "Bool" ->
               IF e.t # "bool" THEN Fail(wrapArrayValueTypeError(r, List(arr), eleType))
               ELSE Ok(e.b)
          [] eleType \in {"Int8", "Int16", "Int32"} ->
               IF e.t # "num" THEN Fail(wrapArrayValueTypeError(r, List(arr), eleType))
               ELSE LET num == ParseInt(e.lit, 32)
                    IN  IF ~num.ok THEN num ELSE Ok(int32(num.val))
          [] eleType = "Int64" ->
               IF e.t # "num" THEN Fail(wrapArrayValueTypeError(r, List(arr), eleType))
               ELSE ParseInt(e.lit, 64)
          [] eleType = "Float" ->
               IF e.t # "num" THEN Fail(wrapArrayValueTypeError(r, List(arr), eleType))
               ELSE ParseFloat(e.lit, 32)
          [] eleType = "Double" ->
               IF e.t # "num" THEN Fail(wrapArrayValueTypeError(r, List(arr), eleType))
               ELSE ParseFloat(e.lit, 64)
          [] eleType \in {"VarChar", "String"} ->
               IF e.t # "string" THEN Fail(wrapArrayValueTypeError(r, List(arr), eleType))
               ELSE Ok(e.s)

\* arrayLoop as a bug would have it: the first element that fails ends the
\* loop, and the values appended so far are returned.
arrayLoopPartial(r, arr, eleType, i, values) ==
    LET Failing == {k \in i..Len(arr) : ~arrayElement(r, arr, k, eleType).ok}
        stop == IF Failing = {} THEN Len(arr) + 1
                ELSE CHOOSE k \in Failing : \A j \in Failing : k <= j
    IN  Ok(values \o [k \in 1..(stop - i) |-> arrayElement(r, arr, i + k - 1, eleType).val])

RECURSIVE arrayLoop(_, _, _, _, _)
\* for i := 0; i < len(arr); i++: the first element that fails returns its
\* error and drops the values appended so far.
arrayLoop(r, arr, eleType, i, values) ==
    IF i > Len(arr) THEN Ok(values)
    ELSE LET value == arrayElement(r, arr, i, eleType)
         IN  IF ~value.ok THEN value
             ELSE arrayLoop(r, arr, eleType, i + 1, Append(values, value.val))

\* The schemapb.ScalarField a finished element loop is wrapped in.
ScalarField(eleType, values) ==
    CASE eleType = "Bool" -> [t |-> "BoolArray", bools |-> values]
      [] eleType \in {"Int8", "Int16", "Int32"} -> [t |-> "IntArray", int32s |-> values]
      [] eleType = "Int64" -> [t |-> "LongArray", int64s |-> values]
      [] eleType = "Float" -> [t |-> "FloatArray", floats |-> values]
      [] eleType = "Double" -> [t |-> "DoubleArray", floats |-> values]
      [] eleType \in {"VarChar", "String"} -> [t |-> "StringArray", strings |-> values]

ArrayElementTypes == {"Bool", "Int8", "Int16", "Int32", "Int64", "Float", "Double",
                      "VarChar", "String"}

\* arrayToFieldData: the typed sequence of an array field's value; an
\* element type outside the switch is an error that names no field.
arrayToFieldData(r, arr, eleType) ==
    IF eleType \in ArrayElementTypes
    THEN LET values == arrayLoop(r, arr, eleType, 1, <<>>)
         IN  IF ~values.ok THEN values ELSE Ok(ScalarField(eleType, values.val))
    ELSE Fail(Err("unsupportedArray", NoField, "", 0))

(***************************************************************************)
(* parseEntity.                                                            *)
(***************************************************************************)
RECURSIVE bytesLoop(_, _, _, _, _)
\* The element loop of the BinaryVector and Float16Vector cases: each
\* element is a json.Number parsed as an unsigned 8-bit integer.
bytesLoop(r, fieldID, arr, i, vec) ==
    IF i > Len(arr) THEN Ok([t |-> "[]byte", bytes |-> vec])
    ELSE IF arr[i].t # "num" THEN Fail(wrapTypeError(r, arr[i], fieldID))
    ELSE LET num == ParseUint(arr[i].lit, 8)
         IN  IF ~num.ok THEN num
             ELSE bytesLoop(r, fieldID, arr, i + 1, Append(vec, byte(num.val)))

RECURSIVE floatsLoop(_, _, _, _, _)
\* The element loop of the FloatVector case: each element is a json.Number
\* parsed as a 32-bit float.
floatsLoop(r, fieldID, arr, i, vec) ==
    IF i > Len(arr) THEN Ok([t |-> "[]float32", floats |-> vec])
    ELSE IF arr[i].t # "num" THEN Fail(wrapTypeError(r, arr[i], fieldID))
    ELSE LET num == ParseFloat(arr[i].lit, 32)
         IN  IF ~num.ok THEN num
             ELSE floatsLoop(r, fieldID, arr, i + 1, Append(vec, num.val))

\* The dimension the Float16Vector case compares with r.dim.
float16Dim(arr) == Len(arr) \div 2

\* int8BitSize as a bug would have it: the literal is parsed at 64 bits and
\* only then narrowed.
int8BitSizeWide == 2^6

\* The bit size the Int8 case hands to strconv.ParseInt.
int8BitSize == 8

\* parseEntity: the typed value of obj for the field fieldID, or the first
\* error.
parseEntity(r, fieldID, obj) ==
    LET dataType == r.id2Field[fieldID].DataType
    IN  CASE dataType = "Bool" ->
               IF obj.t # "bool" THEN Fail(wrapTypeError(r, obj, fieldID))
               ELSE Ok([t |-> "bool", b |-> obj.b])
          [] dataType = "Int8" ->
               IF obj.t # "num" THEN Fail(wrapTypeError(r, obj, fieldID))
               ELSE LET num == ParseInt(obj.lit, int8BitSize)
                    IN  IF ~num.ok THEN num ELSE Ok([t |-> "int8", bits |-> int8(num.val)])
          [] dataType = "Int16" ->
               IF obj.t # "num" THEN Fail(wrapTypeError(r, obj, fieldID))
               ELSE LET num == ParseInt(obj.lit, 16)
                    IN  IF ~num.ok THEN num ELSE Ok([t |-> "int16", bits |-> int16(num.val)])
          [] dataType = "Int32" ->
               IF obj.t # "num" THEN Fail(wrapTypeError(r, obj, fieldID))
               ELSE LET num == ParseInt(obj.lit, 32)
                    IN  IF ~num.ok THEN num ELSE Ok([t |-> "int32", bits |-> int32(num.val)])
          [] dataType = "Int64" ->
               IF obj.t # "num" THEN Fail(wrapTypeError(r, obj, fieldID))
               ELSE LET num == ParseInt(obj.lit, 64)
                    IN  IF ~num.ok THEN num ELSE Ok([t |-> "int64", bits |-> num.val])
          [] dataType = "Float" ->
               IF obj.t # "num" THEN Fail(wrapTypeError(r, obj, fieldID))
               ELSE LET num == ParseFloat(obj.lit, 32)
                    IN  IF ~num.ok THEN num ELSE Ok([t |-> "float32", float |-> num.val])
          [] dataType = "Double" ->
               IF obj.t # "num" THEN Fail(wrapTypeError(r, obj, fieldID))
               ELSE LET num == ParseFloat(obj.lit, 64)
                    IN  IF ~num.ok THEN num ELSE Ok([t |-> "float64", float |-> num.val])
          [] dataType = "BinaryVector" ->
               IF obj.t # "list" THEN Fail(wrapTypeError(r, obj, fieldID))
               ELSE IF Len(obj.l) * 8 # r.dim
               THEN Fail(wrapDimError(r, Len(obj.l) * 8, fieldID))
               ELSE bytesLoop(r, fieldID, obj.l, 1, <<>>)
          [] dataType = "FloatVector" ->
               IF obj.t # "list" THEN Fail(wrapTypeError(r, obj, fieldID))
               ELSE IF Len(obj.l) # r.dim
               THEN Fail(wrapDimError(r, Len(obj.l), fieldID))
               ELSE floatsLoop(r, fieldID, obj.l, 1, <<>>)
          [] dataType = "Float16Vector" ->
               IF obj.t # "list" THEN Fail(wrapTypeError(r, obj, fieldID))
               ELSE IF float16Dim(obj.l) # r.dim
               THEN Fail(wrapDimError(r, float16Dim(obj.l), fieldID))
               ELSE bytesLoop(r, fieldID, obj.l, 1, <<>>)
          [] dataType \in {"String", "VarChar"} ->
               IF obj.t # "string" THEN Fail(wrapTypeError(r, obj, fieldID))
               ELSE Ok([t |-> "string", s |-> obj.s])
          [] dataType = "JSON" ->
               IF obj.t = "string"
               THEN IF obj.s \in ValidJSONTexts
                    THEN Ok([t |-> "[]byte", text |-> obj.s])
                    ELSE Fail(Err("json", NoField, "json.Unmarshal", 0))
               ELSE IF obj.t = "map"
               THEN Ok([t |-> "[]byte", json |-> Marshal(obj)])
               ELSE Fail(wrapTypeError(r, obj, fieldID))
          [] dataType = "Array" ->
               IF obj.t # "list" THEN Fail(wrapTypeError(r, obj, fieldID))
               ELSE arrayToFieldData(r, obj.l, r.id2Field[fieldID].ElementType)
          [] OTHER -> Fail(Err("unsupported", NoField, "", 0))

(***************************************************************************)
(* combineDynamicRow.                                                      *)
(***************************************************************************)
\* row with row[fieldID] = data.
Store(row, fieldID, data) ==
    [id \in DOMAIN row \cup {fieldID} |-> IF id = fieldID THEN data ELSE row[id]]

\* Put as a bug would have it: the buffer is replaced by the new pair.
PutAlone(dynamicValues, key, value) == [k \in {key} |-> value]

\* dynamicValues with dynamicValues[key] = value.
Put(dynamicValues, key, value) ==
    [k \in DOMAIN dynamicValues \cup {key} |-> IF k = key THEN value ELSE dynamicValues[k]]

\* combineDynamicRow: the row with the dynamic field's slot filled, from
\* the redundant pairs coerced as one JSON value, or as the string "{}"
\* when there is none; or the coercion's error.
combineDynamicRow(r, dynamicValues, row) ==
    LET dynamicFieldID == r.dynamicField.FieldID
    IN  IF Cardinality(DOMAIN dynamicValues) > 0
        THEN LET data == parseEntity(r, dynamicFieldID, Map(dynamicValues))
             IN  IF ~data.ok THEN data
                 ELSE Ok(Store(row, dynamicFieldID, data.val))
        ELSE Ok(Store(row, dynamicFieldID, [t |-> "string", s |-> "{}"]))

(***************************************************************************)
(* State.  One schema index r, shared by the Parse calls of Workers; of    *)
(* each call: its position, its argument raw, the keys of raw the range    *)
(* loop has not visited yet, its locals row and dynamicValues, and what    *)
(* it returned.  call is one direct call of parseEntity or                 *)
(* arrayToFieldData.                                                       *)
(***************************************************************************)
VARIABLES r, pc, raw, todo, row, dynamicValues, result, call

vars == <<r, pc, raw, todo, row, dynamicValues, result, call>>

Workers == {"w1", "w2"}

\* No value: the argument of a call not yet made.
NilValue == [t |-> "nil", nil |-> TRUE]
\* No result: what a call that has not returned has returned.
NoResult == Fail(Err("none", NoField, "", 0))
\* An empty Go map.
EmptyMap == <<>>

(***************************************************************************)
(* Parse.                                                                  *)
(***************************************************************************)
\* pkCheck as a bug would have it: the check is left out.
pkCheckNever(rp, stringMap) == TRUE

\* Whether Parse's first check lets the record through: the primary key's
\* name is no key of it, or the primary key is not auto-generated.
pkCheck(rp, stringMap) ==
    ~(rp.pkField.Name \in DOMAIN stringMap /\ rp.pkField.AutoID)

\* The call returns res: its locals are gone.
Return(w, res) ==
    /\ pc' = [pc EXCEPT ![w] = "done"]
    /\ result' = [result EXCEPT ![w] = res]
    /\ todo' = [todo EXCEPT ![w] = {}]
    /\ row' = [row EXCEPT ![w] = EmptyMap]
    /\ dynamicValues' = [dynamicValues EXCEPT ![w] = EmptyMap]

\* Parse, from its entry to the range loop: the type assertion on raw, the
\* check for a supplied auto-generated primary key, and the two make calls.
ParseEnter(w, arg) ==
    /\ pc[w] = "idle"
    /\ raw' = [raw EXCEPT ![w] = arg]
    /\ IF arg.t # "map"
       THEN Return(w, Fail(Err("format", NoField, GoType(arg), 0)))
       ELSE IF ~pkCheck(r, arg.m)
       THEN Return(w, Fail(Err("autoPK", r.pkField.Name, "", 0)))
       ELSE /\ pc' = [pc EXCEPT ![w] = "range"]
            /\ todo' = [todo EXCEPT ![w] = DOMAIN arg.m]
            /\ row' = [row EXCEPT ![w] = EmptyMap]
            /\ dynamicValues' = [dynamicValues EXCEPT ![w] = EmptyMap]
            /\ UNCHANGED result
    /\ UNCHANGED <<r, call>>

\* putDynamic as a bug would have it: the buffer is a member of the shared
\* rowParser, so every call sees the pair.
putDynamicShared(dv, w, key, value) == [u \in DOMAIN dv |-> Put(dv[u], key, value)]

\* What the range loop does to the buffers of the calls when call w puts
\* the pair key/value aside.
putDynamic(dv, w, key, value) == [dv EXCEPT ![w] = Put(dv[w], key, value)]

\* redundantKey as a bug would have it: without a dynamic field the pair is
\* put aside too.
redundantKeyLenient(rp, key) ==
    IF rp.dynamicField # NilField /\ key = rp.dynamicField.Name THEN "error" ELSE "put"

\* What the range loop does with a key that is no explicit field's name:
\* "error" with a dynamic field of that name, "put" with another dynamic
\* field, "undefined" without one.
redundantKey(rp, key) ==
    IF rp.dynamicField # NilField
    THEN (IF key = rp.dynamicField.Name THEN "error" ELSE "put")
    ELSE "undefined"

\* One pass of the range loop over stringMap, for the pair the map
\* iteration yields next: any pair not yet visited.
ParseRange(w, key) ==
    /\ pc[w] = "range"
    /\ key \in todo[w]
    /\ LET value == raw[w].m[key]
       IN  IF key \in DOMAIN r.name2FieldID
           THEN LET fieldID == r.name2FieldID[key]
                    data == parseEntity(r, fieldID, value)
                IN  IF ~data.ok
                    THEN Return(w, data)
                    ELSE /\ row' = [row EXCEPT ![w] = Store(row[w], fieldID, data.val)]
                         /\ todo' = [todo EXCEPT ![w] = todo[w] \ {key}]
                         /\ UNCHANGED <<pc, dynamicValues, result>>
           ELSE CASE redundantKey(r, key) = "error" ->
                       Return(w, Fail(Err("dynamicName", key, "", 0)))
                  [] redundantKey(r, key) = "put" ->
                       /\ dynamicValues' = putDynamic(dynamicValues, w, key, value)
                       /\ todo' = [todo EXCEPT ![w] = todo[w] \ {key}]
                       /\ UNCHANGED <<pc, row, result>>
                  [] redundantKey(r, key) = "undefined" ->
                       Return(w, Fail(Err("undefined", key, "", 0)))
    /\ UNCHANGED <<r, raw, call>>

\* missed as a bug would have it: the loop over name2FieldID is left out.
missedNone(rp, rw) == {}

\* The explicit fields' names without an entry in the row.
missed(rp, rw) == {fieldName \in DOMAIN rp.name2FieldID : rp.name2FieldID[fieldName] \notin DOMAIN rw}

\* Parse, after the range loop: the loop over name2FieldID returns an error
\* for the first missing field it meets (any of them, in map order); then
\* the row is returned, with the dynamic field combined in if there is one.
ParseExit(w) ==
    /\ pc[w] = "range"
    /\ todo[w] = {}
    /\ IF missed(r, row[w]) # {}
       THEN \E fieldName \in missed(r, row[w]) :
                Return(w, Fail(Err("missing", fieldName, "", 0)))
       ELSE IF r.dynamicField = NilField
       THEN Return(w, Ok(row[w]))
       ELSE Return(w, combineDynamicRow(r, dynamicValues[w], row[w]))
    /\ UNCHANGED <<r, raw, call>>

RECURSIVE rangeAlone(_, _, _, _, _)
\* The rest of a Parse call run alone, from the pairs keys of the range loop
\* on, as the set of results its map iteration orders allow.
rangeAlone(rp, m, keys, rw, dv) ==
    IF keys = {}
    THEN IF missed(rp, rw) # {}
         THEN {Fail(Err("missing", fieldName, "", 0)) : fieldName \in missed(rp, rw)}
         ELSE IF rp.dynamicField = NilField THEN {Ok(rw)}
         ELSE {combineDynamicRow(rp, dv, rw)}
    ELSE UNION {
           IF key \in DOMAIN rp.name2FieldID
           THEN LET data == parseEntity(rp, rp.name2FieldID[key], m[key])
                IN  IF ~data.ok THEN {data}
                    ELSE rangeAlone(rp, m, keys \ {key},
                                    Store(rw, rp.name2FieldID[key], data.val), dv)
           ELSE CASE redundantKey(rp, key) = "error" -> {Fail(Err("dynamicName", key, "", 0))}
                  [] redundantKey(rp, key) = "put" ->
                       rangeAlone(rp, m, keys \ {key}, rw, Put(dv, key, m[key]))
                  [] redundantKey(rp, key) = "undefined" ->
                       {Fail(Err("undefined", key, "", 0))}
           : key \in keys}

\* Parse run alone: the set of results it can return for arg.
ParseAlone(rp, arg) ==
    IF arg.t # "map" THEN {Fail(Err("format", NoField, GoType(arg), 0))}
    ELSE IF ~pkCheck(rp, arg.m) THEN {Fail(Err("autoPK", rp.pkField.Name, "", 0))}
    ELSE rangeAlone(rp, arg.m, DOMAIN arg.m, EmptyMap, EmptyMap)

(***************************************************************************)
(* Inputs of the Parse calls: four schemas (primary key auto-generated or  *)
(* not, with or without a dynamic field), each with a 2-dimensional float  *)
(* vector, and the records of at most MaxKeys pairs over the keys below.   *)
(***************************************************************************)
One == IntLit(FALSE, <<1>>)
Two == IntLit(FALSE, <<2>>)
Eight == IntLit(FALSE, <<8>>)

SchemaOf(autoID, dynamic) ==
    [Fields |-> <<Field(100, "id", "Int64", "None", TRUE, autoID, FALSE, 0),
                  Field(101, "vec", "FloatVector", "None", FALSE, FALSE, FALSE, 2)>>
                \o (IF dynamic
                    THEN <<Field(102, "$meta", "JSON", "None", FALSE, FALSE, TRUE, 0)>>
                    ELSE <<>>)]

Schemas == {SchemaOf(autoID, dynamic) : autoID \in BOOLEAN, dynamic \in BOOLEAN}

RecordKeys == {"id", "vec", "$meta", "x", "y"}

\* The values a record of the model holds under a key.
Candidates(key) ==
    CASE key = "id" -> {Num(One), Str("s")}
      [] key = "vec" -> {List(<<Num(One), Num(Two)>>), List(<<Num(One)>>),
                         List(<<Num(One), Num(Lit(FALSE, <<1>>, <<>>, <<40>>))>>)}
      [] key = "$meta" -> {Str("{}"), Map(EmptyMap)}
      [] key = "x" -> {Num(Eight)}
      [] key = "y" -> {Bool(TRUE)}

RecordsOver(keys) ==
    {m \in [keys -> UNION {Candidates(k) : k \in keys}] : \A k \in keys : m[k] \in Candidates(k)}

\* The arguments of Parse: the records, and one value that is no map.
RawValues ==
    {Map(m) : m \in UNION {RecordsOver(keys) :
                             keys \in {K \in SUBSET RecordKeys : Cardinality(K) <= MaxKeys}}}
    \cup {List(<<>>)}

\* No direct call.
NoCall == [fn |-> "none", fieldID |-> 0, eleType |-> "None", obj |-> NilValue,
           done |-> FALSE, res |-> NoResult]

IdleWorkers ==
    /\ pc = [w \in Workers |-> "idle"]
    /\ raw = [w \in Workers |-> NilValue]
    /\ todo = [w \in Workers |-> {}]
    /\ row = [w \in Workers |-> EmptyMap]
    /\ dynamicValues = [w \in Workers |-> EmptyMap]
    /\ result = [w \in Workers |-> NoResult]

\* After NewRowParser(schema) has returned the index, before any Parse.
Init ==
    /\ r \in {NewRowParser(schema).val : schema \in {s \in Schemas : NewRowParser(s).ok}}
    /\ IdleWorkers
    /\ call = NoCall

Next ==
    \E w \in Workers :
        \/ \E arg \in RawValues : ParseEnter(w, arg)
        \/ \E key \in RecordKeys : ParseRange(w, key)
        \/ ParseExit(w)

\* Concurrent Parse calls on one shared schema index.
Spec == Init /\ [][Next]_vars

(***************************************************************************)
(* Inputs of the direct calls of parseEntity and arrayToFieldData: one     *)
(* schema per vector encoding, the float vector's schema with a field of   *)
(* every scalar type and an array field of every element type, and values  *)
(* of every shape with numeric literals at the edges of the integer        *)
(* widths.                                                                 *)
(***************************************************************************)
EntityFields ==
    <<Field(3, "bool", "Bool", "None", FALSE, FALSE, FALSE, 0),
      Field(4, "int8", "Int8", "None", FALSE, FALSE, FALSE, 0),
      Field(5, "int16", "Int16", "None", FALSE, FALSE, FALSE, 0),
      Field(6, "int32", "Int32", "None", FALSE, FALSE, FALSE, 0),
      Field(7, "int64", "Int64", "None", FALSE, FALSE, FALSE, 0),
      Field(8, "float", "Float", "None", FALSE, FALSE, FALSE, 0),
      Field(9, "double", "Double", "None", FALSE, FALSE, FALSE, 0),
      Field(10, "varchar", "VarChar", "None", FALSE, FALSE, FALSE, 0),
      Field(11, "json", "JSON", "None", FALSE, FALSE, FALSE, 0),
      Field(12, "none", "None", "None", FALSE, FALSE, FALSE, 0),
      Field(20, "bools", "Array", "Bool", FALSE, FALSE, FALSE, 0),
      Field(21, "int8s", "Array", "Int8", FALSE, FALSE, FALSE, 0),
      Field(22, "int16s", "Array", "Int16", FALSE, FALSE, FALSE, 0),
      Field(23, "int32s", "Array", "Int32", FALSE, FALSE, FALSE, 0),
      Field(24, "int64s", "Array", "Int64", FALSE, FALSE, FALSE, 0),
      Field(25, "floats", "Array", "Float", FALSE, FALSE, FALSE, 0),
      Field(26, "doubles", "Array", "Double", FALSE, FALSE, FALSE, 0),
      Field(27, "varchars", "Array", "VarChar", FALSE, FALSE, FALSE, 0),
      Field(28, "jsons", "Array", "JSON", FALSE, FALSE, FALSE, 0)>>

EntitySchemaOf(vectorType, dim, more) ==
    [Fields |-> <<Field(1, "id", "Int64", "None", TRUE, FALSE, FALSE, 0),
                  Field(2, "vec", vectorType, "None", FALSE, FALSE, FALSE, dim)>> \o more]

EntitySchemas ==
    {EntitySchemaOf("FloatVector", 2, EntityFields),
     EntitySchemaOf("BinaryVector", 8, <<>>),
     EntitySchemaOf("BinaryVector", 16, <<>>),
     EntitySchemaOf("Float16Vector", 1, <<>>)}

\* 2^7, 2^15, 2^31, 2^63, 2^8 and 2^64 in decimal digits.
D128 == <<1, 2, 8>>
D32768 == <<3, 2, 7, 6, 8>>
D2147483648 == <<2, 1, 4, 7, 4, 8, 3, 6, 4, 8>>
D9223372036854775808 == <<9, 2, 2, 3, 3, 7, 2, 0, 3, 6, 8, 5, 4, 7, 7, 5, 8, 0, 8>>
D256 == <<2, 5, 6>>
D18446744073709551616 == <<1, 8, 4, 4, 6, 7, 4, 4, 0, 7, 3, 7, 0, 9, 5, 5, 1, 6, 1, 6>>

\* ds - 1, for digits ds that do not end in 0.
Pred(ds) == [i \in DOMAIN ds |-> IF i = Len(ds) THEN ds[i] - 1 ELSE ds[i]]
\* ds + 1, for digits ds that do not end in 9.
Succ(ds) == [i \in DOMAIN ds |-> IF i = Len(ds) THEN ds[i] + 1 ELSE ds[i]]

EdgeDigits == {D128, D32768, D2147483648, D9223372036854775808}

\* The numeric literals of the model: 0, -0, 1, -1; for every width the
\* least and the greatest integer and their neighbours outside; 255, 256
\* and 2^64; 1.5 and 1.0; 1e40 and 1e400.
Literals ==
    {IntLit(neg, ds) : neg \in BOOLEAN, ds \in {<<0>>, <<1>>}}
    \cup {IntLit(FALSE, ds) : ds \in {Pred(e) : e \in EdgeDigits} \cup EdgeDigits}
    \cup {IntLit(TRUE, ds) : ds \in EdgeDigits \cup {Succ(e) : e \in EdgeDigits}}
    \cup {IntLit(FALSE, Pred(D256)), IntLit(FALSE, D256), IntLit(FALSE, D18446744073709551616)}
    \cup {Lit(FALSE, <<1>>, <<5>>, <<>>), Lit(FALSE, <<1>>, <<0>>, <<>>),
          Lit(FALSE, <<1>>, <<>>, <<40>>), Lit(FALSE, <<1>>, <<>>, <<400>>)}

\* The elements of the model's lists.
ListElements ==
    {Num(One), Num(IntLit(FALSE, D256)), Num(IntLit(FALSE, D2147483648)),
     Num(Lit(FALSE, <<1>>, <<>>, <<40>>)), Str("s"), Bool(TRUE)}

Lists == UNION {[1..n -> ListElements] : n \in 0..MaxLen}

\* The values handed to parseEntity.
EntityValues ==
    {Bool(TRUE), Str("s"), Str("{}"), Str("{bad"), Map(EmptyMap),
     Map([k \in {"x"} |-> Num(Eight)])}
    \cup {Num(lit) : lit \in Literals}
    \cup {List(l) : l \in Lists}

\* The direct calls on the index rp.
Calls(rp) ==
    {[fn |-> "parseEntity", fieldID |-> fieldID, eleType |-> "None", obj |-> obj,
      done |-> FALSE, res |-> NoResult] :
        fieldID \in DOMAIN rp.id2Field, obj \in EntityValues}
    \cup {[fn |-> "arrayToFieldData", fieldID |-> 0, eleType |-> eleType, obj |-> List(l),
           done |-> FALSE, res |-> NoResult] :
             eleType \in ArrayElementTypes \cup {"JSON"}, l \in Lists}

\* A schema index and the arguments of one direct call.
InitEntity ==
    /\ r \in {NewRowParser(schema).val : schema \in {s \in EntitySchemas : NewRowParser(s).ok}}
    /\ IdleWorkers
    /\ call \in Calls(r)

\* parseEntity(fieldID, obj) is called and returns.
CallParseEntity ==
    /\ call.fn = "parseEntity"
    /\ ~call.done
    /\ call' = [call EXCEPT !.done = TRUE, !.res = parseEntity(r, call.fieldID, call.obj)]
    /\ UNCHANGED <<r, pc, raw, todo, row, dynamicValues, result>>

\* arrayToFieldData(arr, eleType) is called and returns.
CallArrayToFieldData ==
    /\ call.fn = "arrayToFieldData"
    /\ ~call.done
    /\ call' = [call EXCEPT !.done = TRUE, !.res = arrayToFieldData(r, call.obj.l, call.eleType)]
    /\ UNCHANGED <<r, pc, raw, todo, row, dynamicValues, result>>

NextEntity == CallParseEntity \/ CallArrayToFieldData

\* One call of parseEntity or arrayToFieldData on bounded inputs.
SpecEntity == InitEntity /\ [][NextEntity]_vars

(***************************************************************************)
(* Vocabulary of the properties.                                           *)
(***************************************************************************)
Done(w) == pc[w] = "done"

\* The call w was handed a key/value map.
IsRecord(w) == raw[w].t = "map"

DeclaredFields(rp) == {rp.id2Field[id] : id \in DOMAIN rp.id2Field}

\* The explicit fields: every declared field but the auto-generated primary
\* key and the dynamic field.
ExplicitFields(rp) ==
    {f \in DeclaredFields(rp) : ~(f.IsPrimaryKey /\ f.AutoID) /\ ~f.IsDynamic}

ExplicitNames(rp) == {f.Name : f \in ExplicitFields(rp)}

HasDynamicField(rp) == \E f \in DeclaredFields(rp) : f.IsDynamic

DynamicFieldOf(rp) == CHOOSE f \in DeclaredFields(rp) : f.IsDynamic

HasAutoPK(rp) == \E f \in DeclaredFields(rp) : f.IsPrimaryKey /\ f.AutoID

AutoPKOf(rp) == CHOOSE f \in DeclaredFields(rp) : f.IsPrimaryKey /\ f.AutoID

\* The IDs a returned Row must have as its keys.
RowKeys(rp) ==
    {f.FieldID : f \in ExplicitFields(rp)}
    \cup (IF HasDynamicField(rp) THEN {DynamicFieldOf(rp).FieldID} ELSE {})

RECURSIVE Unmarshal(_)
\* The value a JSON text denotes, read back from its syntax tree.
Unmarshal(tree) ==
    CASE tree.j = "bool" -> Bool(tree.b)
      [] tree.j = "number" -> Num(tree.lit)
      [] tree.j = "string" -> Str(tree.s)
      [] tree.j = "array" -> List([i \in DOMAIN tree.items |-> Unmarshal(tree.items[i])])
      [] tree.j = "object" ->
           LET at(key) == CHOOSE i \in DOMAIN tree.members : tree.members[i].key = key
           IN  Map([key \in {tree.members[i].key : i \in DOMAIN tree.members} |->
                       Unmarshal(tree.members[at(key)].value)])

\* The pairs of the record of call w whose keys are no explicit field's name.
RedundantPairs(w) ==
    [key \in DOMAIN raw[w].m \ ExplicitNames(r) |-> raw[w].m[key]]

(***************************************************************************)
(* C1.  With an auto-generated primary key, a record that has the primary  *)
(* key's name among its keys is rejected as soon as Parse is entered,      *)
(* whatever the value under that key and whatever its other keys: the call *)
(* has returned, and returned an error, no Row.                            *)
(***************************************************************************)
C1_AutoPKRejected ==
    \A w \in Workers :
        (IsRecord(w) /\ HasAutoPK(r) /\ AutoPKOf(r).Name \in DOMAIN raw[w].m)
            => (Done(w) /\ ~result[w].ok)

\* An auto-generated key supplied as a string, beside two other keys.
C1_Witness ==
    \E w \in Workers :
        /\ IsRecord(w) /\ HasAutoPK(r) /\ AutoPKOf(r).Name \in DOMAIN raw[w].m
        /\ raw[w].m[AutoPKOf(r).Name].t = "string"
        /\ Cardinality(DOMAIN raw[w].m) = 3
        /\ Done(w) /\ ~result[w].ok /\ result[w].err.kind = "autoPK"

(***************************************************************************)
(* C2.  With a dynamic field: a Row that Parse returns holds, under the    *)
(* dynamic field's ID, the JSON text of exactly the record's pairs whose   *)
(* keys are no explicit field's name (read back, the text gives those      *)
(* pairs and no other), and the string "{}" when there is no such pair;    *)
(* and a record that has the dynamic field's name among its keys yields no *)
(* Row.                                                                    *)
(***************************************************************************)
C2_DynamicFieldAggregation ==
    \A w \in Workers :
        (Done(w) /\ IsRecord(w) /\ HasDynamicField(r)) =>
            /\ result[w].ok =>
                 LET stored == result[w].val[DynamicFieldOf(r).FieldID]
                 IN  IF DOMAIN RedundantPairs(w) = {}
                     THEN stored = [t |-> "string", s |-> "{}"]
                     ELSE /\ stored.t = "[]byte"
                          /\ "json" \in DOMAIN stored
                          /\ Unmarshal(stored.json) = Map(RedundantPairs(w))
            /\ DynamicFieldOf(r).Name \in DOMAIN raw[w].m => ~result[w].ok

\* A Row returned for a record with two redundant pairs.
C2_Witness ==
    \E w \in Workers :
        /\ Done(w) /\ IsRecord(w) /\ HasDynamicField(r) /\ result[w].ok
        /\ Cardinality(DOMAIN RedundantPairs(w)) = 2

(***************************************************************************)
(* C6.  Without a dynamic field, a record with a key that is no declared   *)
(* field's name never yields a Row.                                        *)
(***************************************************************************)
C6_UnknownKeyRejected ==
    \A w \in Workers :
        (Done(w) /\ IsRecord(w) /\ ~HasDynamicField(r)
         /\ \E key \in DOMAIN raw[w].m : key \notin {f.Name : f \in DeclaredFields(r)})
            => ~result[w].ok

\* An undeclared key beside well-typed values for every explicit field.
C6_Witness ==
    \E w \in Workers :
        /\ Done(w) /\ IsRecord(w) /\ ~HasDynamicField(r)
        /\ ExplicitNames(r) \subseteq DOMAIN raw[w].m
        /\ "x" \in DOMAIN raw[w].m
        /\ ~result[w].ok /\ result[w].err = Err("undefined", "x", "", 0)

(***************************************************************************)
(* C3.  As amended: a Row that Parse returns has as its keys exactly the   *)
(* IDs of the explicit fields and, with a dynamic field, that field's ID;  *)
(* a record that omits an explicit field yields no Row, and the error is   *)
(* the missing-field error, naming an omitted field, whenever none of the  *)
(* record's pairs is rejected first.                                       *)
(***************************************************************************)
\* The explicit fields' names that are no key of the record of call w.
Omitted(w) == ExplicitNames(r) \ DOMAIN raw[w].m

FieldNamed(rp, name) == CHOOSE f \in DeclaredFields(rp) : f.Name = name

\* No pair of the record of call w is rejected: the auto-generated primary
\* key and the dynamic field are not supplied, every explicit field's value
\* coerces, and any other key has a dynamic field to go to.
PairsAccepted(w) ==
    \A key \in DOMAIN raw[w].m :
        /\ HasAutoPK(r) => key # AutoPKOf(r).Name
        /\ IF key \in ExplicitNames(r)
           THEN parseEntity(r, FieldNamed(r, key).FieldID, raw[w].m[key]).ok
           ELSE HasDynamicField(r) /\ key # DynamicFieldOf(r).Name

C3_RowKeys ==
    \A w \in Workers :
        (Done(w) /\ IsRecord(w)) =>
            /\ result[w].ok => DOMAIN result[w].val = RowKeys(r)
            /\ Omitted(w) # {} =>
                 /\ ~result[w].ok
                 /\ PairsAccepted(w) =>
                      (result[w].err.kind = "missing" /\ result[w].err.field \in Omitted(w))

\* One call has returned a Row of three keys, another a missing-field error
\* for a record that is not empty.
C3_Witness ==
    \E w1, w2 \in Workers :
        /\ Done(w1) /\ IsRecord(w1) /\ result[w1].ok
        /\ Cardinality(DOMAIN result[w1].val) = 3
        /\ Done(w2) /\ IsRecord(w2) /\ Omitted(w2) # {} /\ DOMAIN raw[w2].m # {}
        /\ ~result[w2].ok /\ result[w2].err.kind = "missing"

\* C3 as stated: every record that omits an explicit field is rejected with
\* the missing-field error.
C3_AsStated ==
    \A w \in Workers :
        (Done(w) /\ IsRecord(w)) =>
            /\ result[w].ok => DOMAIN result[w].val = RowKeys(r)
            /\ Omitted(w) # {} => (~result[w].ok /\ result[w].err.kind = "missing")

(***************************************************************************)
(* C5.  As stated: two Parse calls on the same record against the same     *)
(* schema index return the same result, the same Row or the same error     *)
(* (kind and field), whatever the order the keys are visited in.           *)
(***************************************************************************)
C5_OrderIndependent ==
    \A w1, w2 \in Workers :
        (Done(w1) /\ Done(w2) /\ raw[w1] = raw[w2]) => result[w1] = result[w2]

(***************************************************************************)
(* C7.  As stated: every error Parse returns for a record names a field    *)
(* (the errors of a key/value map are all located in a field: the supplied *)
(* primary key, the undeclared or forbidden key, the missing field, the    *)
(* field whose value does not coerce).                                     *)
(***************************************************************************)
C7_ErrorsNameField ==
    \A w \in Workers :
        (Done(w) /\ IsRecord(w) /\ ~result[w].ok) => result[w].err.field # NoField

(***************************************************************************)
(* C9.  No step of a Parse call changes the schema index or a record       *)
(* handed to a call, and a step changes the position, locals and result of *)
(* one call only; and whatever the interleaving, a call that has returned  *)
(* has returned one of the results Parse returns for its record when run   *)
(* alone.                                                                  *)
(***************************************************************************)
LocalsOf(w) == <<pc[w], raw[w], todo[w], row[w], dynamicValues[w], result[w]>>

C9_SharedIndexReadOnly ==
    /\ [][/\ r' = r
          /\ \A w \in Workers : pc[w] # "idle" => raw'[w] = raw[w]
          /\ \A w1, w2 \in Workers :
                (LocalsOf(w1)' # LocalsOf(w1) /\ LocalsOf(w2)' # LocalsOf(w2)) => w1 = w2
         ]_vars
    /\ [](\A w \in Workers : Done(w) => result[w] \in ParseAlone(r, raw[w]))

\* Two calls under way at once, one with a pair put aside, the other with
\* an entry in its row.
C9_Witness ==
    \E w1, w2 \in Workers :
        /\ w1 # w2
        /\ pc[w1] = "range" /\ DOMAIN dynamicValues[w1] # {}
        /\ pc[w2] = "range" /\ DOMAIN row[w2] # {} /\ raw[w1] # raw[w2]

(***************************************************************************)
(* Integers, as the properties speak of them: a sign and a natural.        *)
(***************************************************************************)
Signed(neg, mag) == [neg |-> neg /\ mag # <<>>, mag |-> mag]

\* The digits of a literal and the power of ten they are scaled by.
AllDigits(lit) == lit.int \o lit.frac
Scale(lit) == (IF lit.exp = <<>> THEN 0 ELSE lit.exp[1]) - Len(lit.frac)

\* Whether the number a literal denotes is an integer: 1, 1.0 and 1e2 are,
\* 1.5 is not.
HasIntegerValue(lit) ==
    \/ Scale(lit) >= 0
    \/ \A i \in DOMAIN AllDigits(lit) :
           i > Len(AllDigits(lit)) + Scale(lit) => AllDigits(lit)[i] = 0

\* The decimal digits of the integer a literal with an integer value
\* denotes.
IntegerDigits(lit) ==
    IF Scale(lit) >= 0
    THEN AllDigits(lit) \o [i \in 1..Scale(lit) |-> 0]
    ELSE SubSeq(AllDigits(lit), 1, Len(AllDigits(lit)) + Scale(lit))

\* The integer a literal with an integer value denotes.
IntegerValue(lit) == Signed(lit.neg, DigitsValue(IntegerDigits(lit)))

\* Whether a literal is written as an integer: no fraction, no exponent.
IntegerSyntax(lit) == lit.frac = <<>> /\ lit.exp = <<>>

\* v in [-2^(w-1), 2^(w-1) - 1].
InRange(v, w) ==
    IF v.neg THEN NatCmp(v.mag, Pow2(w - 1)) <= 0 ELSE NatCmp(v.mag, Pow2(w - 1)) < 0

\* Whether the integer value of a literal lies in [-2^(w-1), 2^(w-1) - 1];
\* more than 20 digits after a leading digit other than 0 are 10^20 or
\* more, outside every width.
ValueInRange(lit, w) ==
    IF Len(IntegerDigits(lit)) > 20 /\ IntegerDigits(lit)[1] # 0 THEN FALSE
    ELSE InRange(IntegerValue(lit), w)

\* The integer a w-bit two's complement word holds.
IntOf(w, bits) ==
    IF w = 8
    THEN Signed(bits[1] >= 2^7, Normalize(<<IF bits[1] >= 2^7 THEN 2^8 - bits[1] ELSE bits[1]>>))
    ELSE LET neg == bits[Len(bits)] >= 2^15
         IN  Signed(neg, Normalize(IF neg THEN Negate(bits) ELSE bits))

IntTypes == {"Int8", "Int16", "Int32", "Int64"}

WidthOf(dataType) ==
    CASE dataType = "Int8" -> 8
      [] dataType = "Int16" -> 16
      [] dataType = "Int32" -> 32
      [] dataType = "Int64" -> 64

\* The typed value of a scalar integer field: the Go type and its word.
IsWord(val, dataType) ==
    /\ DOMAIN val = {"t", "bits"}
    /\ val.t = (CASE dataType = "Int8" -> "int8" [] dataType = "Int16" -> "int16"
                  [] dataType = "Int32" -> "int32" [] dataType = "Int64" -> "int64")
    /\ Len(val.bits) = (IF dataType = "Int8" THEN 1 ELSE WidthOf(dataType) \div 16)

\* A direct call of parseEntity has returned.
EntityDone == call.fn = "parseEntity" /\ call.done

EntityField == r.id2Field[call.fieldID]

LengthMatches(dataType, n, dim) ==
    CASE dataType = "BinaryVector" -> n * 8 = dim
      [] dataType = "FloatVector" -> n = dim
      [] dataType = "Float16Vector" -> n = 2 * dim

\* Whether an element of a vector is well typed: a numeric literal that
\* parses as the encoding's element.
WellTyped(dataType, e) ==
    /\ e.t = "num"
    /\ IF dataType = "FloatVector" THEN ParseFloat(e.lit, 32).ok ELSE ParseUint(e.lit, 8).ok

C4_ExactDimension ==
    (EntityDone /\ EntityField.DataType \in VectorTypes /\ call.obj.t = "list") =>
        LET arr == call.obj.l
            res == call.res
        IN  IF ~LengthMatches(EntityField.DataType, Len(arr), r.dim)
            THEN ~res.ok /\ res.err.kind = "dim"
            ELSE (\A i \in DOMAIN arr : WellTyped(EntityField.DataType, arr[i])) => res.ok

(***************************************************************************)
(* C10.  As amended: for an array field with a supported element type,     *)
(* arrayToFieldData checks the elements in index order.  If every element  *)
(* has the element type's source shape (boolean, numeric literal, string)  *)
(* and every numeric literal parses at the element type's width (32 bits   *)
(* for int8, int16 and int32 alike), the result is a typed sequence of the *)
(* same length and the same element order as the list, of 32-bit integers  *)
(* for int8, int16 and int32.  Otherwise the call fails with the error of  *)
(* the first element that fails: a type mismatch if it has not the shape,  *)
(* else its literal's range or syntax error; no partial sequence is        *)
(* returned.  An unsupported element type always fails.                    *)
(***************************************************************************)
\* A direct call of arrayToFieldData has returned.
ArrayDone == call.fn = "arrayToFieldData" /\ call.done

\* The source shape of an element type.
ShapeOf(eleType) ==
    CASE eleType = "Bool" -> "bool"
      [] eleType \in {"VarChar", "String"} -> "string"
      [] OTHER -> "num"

\* The width an element of an integer array is parsed at.
ElementWidth(eleType) == IF eleType = "Int64" THEN 64 ELSE 32

\* The error kind of a numeric literal that does not parse as an element,
\* "none" when it does.
LiteralError(eleType, lit) ==
    IF eleType \in IntTypes
    THEN IF ~IntegerSyntax(lit) THEN "syntax"
         ELSE IF ~InRange(IntegerValue(lit), ElementWidth(eleType)) THEN "range"
         ELSE "none"
    ELSE IF eleType \in {"Float", "Double"}
    THEN IF ParseFloat(lit, IF eleType = "Float" THEN 32 ELSE 64).ok THEN "none" ELSE "range"
    ELSE "none"

\* The error kind of an element, "none" when it converts.
ElementError(eleType, e) ==
    IF e.t # ShapeOf(eleType) THEN "arrayType"
    ELSE IF e.t = "num" THEN LiteralError(eleType, e.lit)
    ELSE "none"

\* Whether the typed element v is the list's element e.
SameElement(eleType, v, e) ==
    CASE eleType = "Bool" -> v = e.b
      [] eleType \in {"VarChar", "String"} -> v = e.s
      [] eleType \in IntTypes ->
           /\ Len(v) = ElementWidth(eleType) \div 16
           /\ IntOf(ElementWidth(eleType), v) = IntegerValue(e.lit)
      [] eleType = "Float" -> v = [bits |-> 32, nearest |-> e.lit]
      [] eleType = "Double" -> v = [bits |-> 64, nearest |-> e.lit]

\* The typed sequence of a result.
SequenceOf(val) ==
    CASE val.t = "BoolArray" -> val.bools
      [] val.t = "IntArray" -> val.int32s
      [] val.t = "LongArray" -> val.int64s
      [] val.t \in {"FloatArray", "DoubleArray"} -> val.floats
      [] val.t = "StringArray" -> val.strings

\* The kind of typed sequence an element type gives.
ArrayKind(eleType) ==
    CASE eleType = "Bool" -> "BoolArray"
      [] eleType \in {"Int8", "Int16", "Int32"} -> "IntArray"
      [] eleType = "Int64" -> "LongArray"
      [] eleType = "Float" -> "FloatArray"
      [] eleType = "Double" -> "DoubleArray"
      [] eleType \in {"VarChar", "String"} -> "StringArray"

\* The result is a typed sequence of the list's elements, in order.
TypedSequence(eleType, arr, res) ==
    /\ res.ok
    /\ res.val.t = ArrayKind(eleType)
    /\ Len(SequenceOf(res.val)) = Len(arr)
    /\ \A i \in DOMAIN arr : SameElement(eleType, SequenceOf(res.val)[i], arr[i])

C10_ArrayCoercion ==
    ArrayDone =>
        LET arr == call.obj.l
            eleType == call.eleType
            res == call.res
            Failing == {i \in DOMAIN arr : ElementError(eleType, arr[i]) # "none"}
        IN  IF eleType \notin ArrayElementTypes
            THEN ~res.ok
            ELSE IF Failing = {}
            THEN TypedSequence(eleType, arr, res)
            ELSE LET first == CHOOSE i \in Failing : \A j \in Failing : i <= j
                 IN  /\ ~res.ok
                     /\ DOMAIN res = {"ok", "err"}
                     /\ res.err.kind = ElementError(eleType, arr[first])

\* An int8 array whose second element, 256, is no int8: three 32-bit
\* integers are returned.
C10_Witness ==
    /\ ArrayDone /\ call.eleType = "Int8"
    /\ Len(call.obj.l) = 3 /\ call.obj.l[2] = Num(IntLit(FALSE, D256))
    /\ call.res.ok /\ call.res.val.t = "IntArray" /\ Len(call.res.val.int32s) = 3

\* C10 as stated: a list whose elements all have the source shape gives a
\* typed sequence of the same length and order; any other list fails with
\* a type mismatch.
C10_AsStated ==
    ArrayDone =>
        LET arr == call.obj.l
            eleType == call.eleType
            res == call.res
        IN  IF eleType \notin ArrayElementTypes
            THEN ~res.ok
            ELSE IF \A i \in DOMAIN arr : arr[i].t = ShapeOf(eleType)
            THEN TypedSequence(eleType, arr, res)
            ELSE ~res.ok /\ DOMAIN res = {"ok", "err"} /\ res.err.kind = "arrayType"

====
